---- MODULE Spec2Model ----
(***************************************************************************)
(* Model of the archery form analyzer (backend/server.py): the frame       *)
(* sampler and rule engine of ArcheryAnalyzer, its aggregator, the shared  *)
(* MediaPipe pose tracker, and the two analysis endpoints.                 *)
(*                                                                         *)
(* Numbers.  Landmark coordinates are integers in hundredths of the        *)
(* normalised image size.  Derived distances are kept in thousandths, so   *)
(* that the halves of the code's means and its literal thresholds          *)
(* (0.03, 0.05, 0.08) are exact; a ratio test such as                      *)
(* foot_distance < shoulder_width * 0.6 is 10*fd < 6*sw.  Angles are in    *)
(* degrees.  Floating-point rounding is not modelled.                      *)
(***************************************************************************)
EXTENDS Integers, Sequences, FiniteSets, TLC

VARIABLES
    pc,            \* per request slot: position of the handler
    request,       \* per request slot: the request the handler was given
    video,         \* per request slot: the video source bound to the handler
    run,           \* per request slot: the locals of analyze_video
    capOpen,       \* per request slot: the cv2.VideoCapture handle is open
    tmpExists,     \* per request slot: /tmp/<video_id>.mp4 exists
    tmpCreated,    \* per request slot: the handler created its temporary file
    response,      \* per request slot: the HTTP response of the handler
    poseTracking,  \* the module-level pose object is tracking a body
    lmIn,          \* rule engine under test: the landmarks handed in
    frameNo,       \* rule engine under test: the frame_number handed in
    frameOut,      \* rule engine under test: what the rules returned
    fbErrors,      \* aggregator under test: the findings handed in
    fbOut,         \* aggregator under test: generate_feedback's list
    smIn,          \* aggregator under test: the metric samples handed in
    smOut          \* aggregator under test: calculate_summary_metrics' dict

vars == <<pc, request, video, run, capOpen, tmpExists, tmpCreated, response,
          poseTracking, lmIn, frameNo, frameOut, fbErrors, fbOut, smIn, smOut>>

serverVars == <<pc, request, video, run, capOpen, tmpExists, tmpCreated,
                response, poseTracking>>
frameVars == <<lmIn, frameNo, frameOut>>
fbVars == <<fbErrors, fbOut, smIn, smOut>>

-----------------------------------------------------------------------------
(* Bounds of the model *)

NumReqs == 2          \* request slots served by the one event loop
MaxFrames == 10       \* longest video decoded
NominalFps == 30      \* the frame rate of a well-formed container
MaxCoord == 10        \* largest left ankle / left shoulder x coordinate
MaxRight == 2         \* largest right ankle / right shoulder x coordinate
MaxErrors == 12       \* longest list of findings handed to generate_feedback
MaxSamples == 3       \* longest list of metric samples handed to the summary
LongFrames == 110     \* length of the long videos (more than 20 sampled frames)

(* Program constants *)

SampleStride == 5        \* frame_count % 5
FeedbackThreshold == 5   \* count > 5
PoseDataCap == 20        \* pose_data[:20]

Abs(v) == IF v < 0 THEN -v ELSE v

-----------------------------------------------------------------------------
(* Landmarks *)

key_landmarks ==
    [left_shoulder |-> 11, right_shoulder |-> 12, left_elbow |-> 13,
     right_elbow |-> 14, left_wrist |-> 15, right_wrist |-> 16,
     left_hip |-> 23, right_hip |-> 24, left_knee |-> 25, right_knee |-> 26,
     left_ankle |-> 27, right_ankle |-> 28, nose |-> 0]

LandmarkIdx == {key_landmarks[n] : n \in DOMAIN key_landmarks}

\* results.pose_landmarks.landmark when nothing is in it
NoLandmarks == <<>>

Point(x, y) == [x |-> x, y |-> y, z |-> 0, visibility |-> 100]

\* The landmark list of one detected body, from the named points of p.
MkLandmarks(p) ==
    [i \in LandmarkIdx |->
        LET n == CHOOSE m \in DOMAIN key_landmarks : key_landmarks[m] = i
        IN  IF n \in DOMAIN p THEN Point(p[n][1], p[n][2]) ELSE Point(50, 50)]

\* [lm.x, lm.y] of the named landmark
XY(landmarks, name) ==
    <<landmarks[key_landmarks[name]].x, landmarks[key_landmarks[name]].y>>

-----------------------------------------------------------------------------
(* Geometric rule engine *)

\* np.arctan2(y, x) in degrees, for the directions that are multiples of 45
Atan2Deg(y, x) ==
    CASE y = 0 /\ x >= 0 -> 0
      [] y = 0 /\ x < 0 -> 180
      [] x = 0 /\ y > 0 -> 90
      [] x = 0 /\ y < 0 -> -90
      [] x > 0 /\ y = x -> 45
      [] x > 0 /\ y = -x -> -45
      [] x < 0 /\ y = -x -> 135
      [] x < 0 /\ y = x -> -135

calculate_angle_signed(a, b, c) ==
    LET angle == Atan2Deg(c[2] - b[2], c[1] - b[1])
                 - Atan2Deg(a[2] - b[2], a[1] - b[1])
    IN  IF angle > 180 THEN 360 - angle ELSE angle

calculate_angle(a, b, c) ==
    LET degrees == Atan2Deg(c[2] - b[2], c[1] - b[1])
                   - Atan2Deg(a[2] - b[2], a[1] - b[1])
        angle == Abs(degrees)
    IN  IF angle > 180 THEN 360 - angle ELSE angle

\* A finding of analyze_stance; description and measurement are kept as the
\* tuple of their literal text and the numbers formatted into it.
StanceError(type, issue, severity, correction, text, frame_number, measured) ==
    [type |-> type, issue |-> issue,
     description |-> <<"Frame", frame_number, text>>,
     severity |-> severity, correction |-> correction,
     frame |-> frame_number, measurement |-> measured]

StanceBandWideFirst(foot_distance, shoulder_width) ==
    IF foot_distance * 10 < shoulder_width * 6 THEN "very_narrow_stance"
    ELSE IF foot_distance * 10 < shoulder_width * 8 THEN "narrow_stance"
    ELSE IF foot_distance * 10 > shoulder_width * 13 THEN "wide_stance"
    ELSE IF foot_distance * 10 > shoulder_width * 15 THEN "very_wide_stance"
    ELSE "none"

\* The if/elif chain on foot_distance against shoulder_width: the branch
\* taken.
StanceBand(foot_distance, shoulder_width) ==
    IF foot_distance * 10 < shoulder_width * 6 THEN "very_narrow_stance"
    ELSE IF foot_distance * 10 < shoulder_width * 8 THEN "narrow_stance"
    ELSE IF foot_distance * 10 > shoulder_width * 15 THEN "very_wide_stance"
    ELSE IF foot_distance * 10 > shoulder_width * 13 THEN "wide_stance"
    ELSE "none"

\* The finding appended in the branch taken (distances in thousandths).
StanceWidthErrors(foot_distance, shoulder_width, frame_number) ==
    LET band == StanceBand(foot_distance, shoulder_width)
    IN  CASE band = "very_narrow_stance" ->
            <<StanceError("stance", "very_narrow_stance", "high",
                "Significantly widen your feet - move them at least shoulder-width apart",
                "Stance is very narrow", frame_number,
                <<"Foot distance", foot_distance, "Shoulder width", shoulder_width>>)>>
          [] band = "narrow_stance" ->
            <<StanceError("stance", "narrow_stance", "medium",
                "Widen your feet to about shoulder-width apart for better stability",
                "Stance is too narrow for optimal stability", frame_number,
                <<"Current", foot_distance, "Target", shoulder_width>>)>>
          [] band = "very_wide_stance" ->
            <<StanceError("stance", "very_wide_stance", "high",
                "Bring your feet significantly closer together",
                "Stance is extremely wide, affecting balance", frame_number,
                <<"Current", foot_distance, "Max recommended",
                  (shoulder_width * 13) \div 10>>)>>
          [] band = "wide_stance" ->
            <<StanceError("stance", "wide_stance", "medium",
                "Narrow your stance slightly for better balance and control",
                "Stance is wider than recommended", frame_number,
                <<"Current", foot_distance, "Recommended", shoulder_width>>)>>
          [] OTHER -> <<>>

\* The if/elif chain on alignment_offset (thousandths).
AlignmentErrors(alignment_offset, frame_number) ==
    IF alignment_offset > 80 THEN
        <<StanceError("posture", "severe_misalignment", "high",
            "Major posture adjustment needed - center your shoulders directly over your feet",
            "Severe body misalignment - shoulders far from center", frame_number,
            <<"Alignment offset", alignment_offset, "critical threshold", 50>>)>>
    ELSE IF alignment_offset > 50 THEN
        <<StanceError("posture", "moderate_misalignment", "medium",
            "Adjust your posture to align shoulders more directly over your feet",
            "Moderate body misalignment detected", frame_number,
            <<"Alignment offset", alignment_offset, "target", 30>>)>>
    ELSE IF alignment_offset > 30 THEN
        <<StanceError("posture", "minor_misalignment", "low",
            "Fine-tune your posture for optimal vertical alignment",
            "Minor body alignment issue", frame_number,
            <<"Alignment offset", alignment_offset>>)>>
    ELSE <<>>

analyze_stance(landmarks, frame_number) ==
    IF DOMAIN landmarks = {} THEN [errors |-> <<>>, metrics |-> <<>>]
    ELSE
    LET left_ankle == XY(landmarks, "left_ankle")
        right_ankle == XY(landmarks, "right_ankle")
        left_shoulder == XY(landmarks, "left_shoulder")
        right_shoulder == XY(landmarks, "right_shoulder")
        left_knee == XY(landmarks, "left_knee")
        right_knee == XY(landmarks, "right_knee")
        foot_distance == 10 * Abs(left_ankle[1] - right_ankle[1])
        shoulder_width == 10 * Abs(left_shoulder[1] - right_shoulder[1])
        foot_angle_diff == 10 * Abs(left_ankle[2] - right_ankle[2])
        knee_alignment == 5 * Abs((left_knee[1] + right_knee[1])
                                  - (left_ankle[1] + right_ankle[1]))
        alignment_offset == 5 * Abs((left_shoulder[1] + right_shoulder[1])
                                    - (left_ankle[1] + right_ankle[1]))
        foot_errors ==
            IF foot_angle_diff > 50 THEN
                <<StanceError("stance", "uneven_foot_height", "medium",
                    "Ensure both feet are planted firmly and evenly on the ground",
                    "Feet are at different heights", frame_number,
                    <<"Height difference", foot_angle_diff>>)>>
            ELSE <<>>
        knee_errors ==
            IF knee_alignment > 30 THEN
                <<StanceError("stance", "knee_misalignment", "medium",
                    "Align your knees directly over your feet for better stability",
                    "Knees are not properly aligned over feet", frame_number,
                    <<"Knee-foot alignment offset", knee_alignment>>)>>
            ELSE <<>>
    IN  [errors |-> StanceWidthErrors(foot_distance, shoulder_width, frame_number)
                    \o foot_errors \o knee_errors
                    \o AlignmentErrors(alignment_offset, frame_number),
         metrics |-> [foot_distance |-> foot_distance,
                      body_alignment |-> alignment_offset]]

\* A finding of analyze_draw_phase (it has no frame and no measurement).
DrawError(issue, severity, description, correction) ==
    [type |-> "draw", issue |-> issue, description |-> <<description>>,
     severity |-> severity, correction |-> correction]

ElbowErrorsBothArms(left_elbow_angle, right_elbow_angle) ==
    LET OfArm(angle) ==
            IF angle < 80 THEN
                <<DrawError("collapsed_elbow", "high",
                    "Drawing elbow is collapsed. Keep elbow up and back.",
                    "Raise your drawing elbow to create proper back tension")>>
            ELSE IF angle > 140 THEN
                <<DrawError("high_elbow", "medium",
                    "Drawing elbow is too high. Lower it slightly.",
                    "Lower your drawing elbow to a more natural position")>>
            ELSE <<>>
    IN  OfArm(right_elbow_angle) \o OfArm(left_elbow_angle)

\* The if/elif chain on right_elbow_angle; left_elbow_angle is computed and
\* reported but never tested.
ElbowErrors(left_elbow_angle, right_elbow_angle) ==
    IF right_elbow_angle < 80 THEN
        <<DrawError("collapsed_elbow", "high",
            "Drawing elbow is collapsed. Keep elbow up and back.",
            "Raise your drawing elbow to create proper back tension")>>
    ELSE IF right_elbow_angle > 140 THEN
        <<DrawError("high_elbow", "medium",
            "Drawing elbow is too high. Lower it slightly.",
            "Lower your drawing elbow to a more natural position")>>
    ELSE <<>>

analyze_draw_phase(landmarks) ==
    IF DOMAIN landmarks = {} THEN [errors |-> <<>>, metrics |-> <<>>]
    ELSE
    LET left_shoulder == XY(landmarks, "left_shoulder")
        right_shoulder == XY(landmarks, "right_shoulder")
        left_elbow == XY(landmarks, "left_elbow")
        right_elbow == XY(landmarks, "right_elbow")
        left_wrist == XY(landmarks, "left_wrist")
        right_wrist == XY(landmarks, "right_wrist")
        left_elbow_angle == calculate_angle(left_shoulder, left_elbow, left_wrist)
        right_elbow_angle == calculate_angle(right_shoulder, right_elbow, right_wrist)
        shoulder_height_diff == 10 * Abs(left_shoulder[2] - right_shoulder[2])
        elbow_errors == ElbowErrors(left_elbow_angle, right_elbow_angle)
        shoulder_errors ==
            IF shoulder_height_diff > 30 THEN
                <<DrawError("uneven_shoulders", "medium",
                    "Shoulders are not level during draw.",
                    "Keep both shoulders level and relaxed during the draw")>>
            ELSE <<>>
    IN  [errors |-> elbow_errors \o shoulder_errors,
         metrics |-> [left_elbow_angle |-> left_elbow_angle,
                      right_elbow_angle |-> right_elbow_angle,
                      shoulder_alignment |-> shoulder_height_diff]]

-----------------------------------------------------------------------------
(* Aggregator *)

RECURSIVE Gcd(_, _)
Gcd(a, b) == IF b = 0 THEN a ELSE Gcd(b, a % b)

\* The quotient n / d (d > 0) as a reduced fraction <<numerator, denominator>>.
Frac(n, d) == LET g == Gcd(Abs(n), d) IN <<n \div g, d \div g>>

RECURSIVE SumSeq(_)
SumSeq(s) == IF s = <<>> THEN 0 ELSE Head(s) + SumSeq(Tail(s))

ErrorTypeCategoryOnly(error) == error.type

\* f"{error['type']}_{error['issue']}"
ErrorType(error) == error.type \o "_" \o error.issue

\* error_counts.get(error_type) after the counting loop
ErrorCount(errors, error_type) ==
    Cardinality({i \in 1..Len(errors) : ErrorType(errors[i]) = error_type})

\* error_counts.items(): the keys in the order of their first occurrence
ErrorTypes(errors) ==
    LET firsts == {i \in 1..Len(errors) :
                      \A j \in 1..(i - 1) : ErrorType(errors[j]) # ErrorType(errors[i])}
    IN  [k \in 1..Cardinality(firsts) |->
            ErrorType(errors[CHOOSE i \in firsts :
                                Cardinality({j \in firsts : j <= i}) = k])]

\* next(e for e in errors if key(e) == error_type)
ErrorExample(errors, error_type) ==
    errors[CHOOSE i \in 1..Len(errors) :
              /\ ErrorType(errors[i]) = error_type
              /\ \A j \in 1..(i - 1) : ErrorType(errors[j]) # error_type]

\* The warning string: glyph, correction text and occurrence count.
Warning(correction, count) == <<"warning", correction, count>>

PositiveMessage == <<"ok", "Good form! No major errors detected.">>

FrequentInclusive(count) == count >= FeedbackThreshold

\* if count > 5
Frequent(count) == count > FeedbackThreshold

generate_feedback(errors) ==
    LET error_types == ErrorTypes(errors)
        frequent == SelectSeq(error_types,
                        LAMBDA t : Frequent(ErrorCount(errors, t)))
        feedback == [k \in 1..Len(frequent) |->
                        Warning(ErrorExample(errors, frequent[k]).correction,
                                ErrorCount(errors, frequent[k]))]
    IN  IF feedback = <<>> THEN <<PositiveMessage>> ELSE feedback

MetricKeys ==
    <<"foot_distance", "body_alignment", "left_elbow_angle",
      "right_elbow_angle", "shoulder_alignment">>

MetricValuesTruthy(all_metrics, key) ==
    LET having == SelectSeq(all_metrics,
                      LAMBDA m : key \in DOMAIN m /\ m[key] # 0)
    IN  [k \in 1..Len(having) |-> having[k][key]]

\* [m.get(key) for m in all_metrics if m.get(key) is not None]
MetricValues(all_metrics, key) ==
    LET having == SelectSeq(all_metrics, LAMBDA m : key \in DOMAIN m)
    IN  [k \in 1..Len(having) |-> having[k][key]]

\* np.std(values): the square root of the population variance, kept as
\* <<"sqrt", numerator, denominator>> of the variance.
NpStd(values) ==
    LET n == Len(values)
        s == SumSeq(values)
        sq == SumSeq([k \in 1..n |-> values[k] * values[k]])
    IN  <<"sqrt">> \o Frac(n * sq - s * s, n * n)

calculate_summary_metrics(all_metrics) ==
    IF all_metrics = <<>> THEN <<>>
    ELSE
    LET present == {k \in 1..Len(MetricKeys) :
                        MetricValues(all_metrics, MetricKeys[k]) # <<>>}
        names == {"avg_" \o MetricKeys[k] : k \in present}
                 \cup {"std_" \o MetricKeys[k] : k \in present}
    IN  [n \in names |->
            LET k == CHOOSE j \in present :
                        n \in {"avg_" \o MetricKeys[j], "std_" \o MetricKeys[j]}
                values == MetricValues(all_metrics, MetricKeys[k])
            IN  IF n = "avg_" \o MetricKeys[k]
                THEN Frac(SumSeq(values), Len(values))
                ELSE IF Len(values) > 1 THEN NpStd(values)
                     ELSE <<"sqrt", 0, 1>>]

-----------------------------------------------------------------------------
(* Video sources and the landmark provider *)

\* The poses that occur in the videos of the model: pose 1 is the very wide
\* stance of the end-to-end scenario, pose 2 a narrow stance with a
\* collapsed drawing elbow and uneven shoulders.
PoseLandmarks(i) ==
    IF i = 1 THEN
        MkLandmarks([left_ankle |-> <<30, 50>>, right_ankle |-> <<70, 50>>,
                     left_shoulder |-> <<40, 20>>, right_shoulder |-> <<60, 20>>,
                     left_knee |-> <<30, 40>>, right_knee |-> <<70, 40>>,
                     left_elbow |-> <<30, 20>>, left_wrist |-> <<20, 20>>,
                     right_elbow |-> <<70, 20>>, right_wrist |-> <<70, 10>>])
    ELSE
        MkLandmarks([left_ankle |-> <<45, 90>>, right_ankle |-> <<52, 96>>,
                     left_shoulder |-> <<40, 20>>, right_shoulder |-> <<50, 24>>,
                     left_knee |-> <<50, 70>>, right_knee |-> <<57, 70>>,
                     left_elbow |-> <<30, 20>>, left_wrist |-> <<30, 30>>,
                     right_elbow |-> <<60, 24>>, right_wrist |-> <<55, 24>>])

\* What one decoded frame shows: nobody, a body the detector finds on its
\* own ("clear"), or a body that is only followed while the tracker already
\* has it ("weak": below min_detection_confidence, above
\* min_tracking_confidence).
NoBody == [vis |-> "none", lm |-> 0]
FrameKinds == {NoBody, [vis |-> "weak", lm |-> 1], [vis |-> "clear", lm |-> 1],
               [vis |-> "clear", lm |-> 2]}

\* pose.process(rgb_frame) on the module-level Pose(static_image_mode=False):
\* the landmarks reported and whether the object is tracking afterwards.
PoseProcess(frame, tracking) ==
    IF frame.vis = "clear" \/ (frame.vis = "weak" /\ tracking)
    THEN [pose_landmarks |-> PoseLandmarks(frame.lm), tracking |-> TRUE]
    ELSE [pose_landmarks |-> NoLandmarks, tracking |-> FALSE]

NoVideo == [opened |-> FALSE, frame_count_prop |-> 0, fps |-> 0, frames |-> <<>>]

\* The videos of the model: containers that do not open, and containers of
\* up to MaxFrames frames whose content changes at most once, whose
\* frame-count property is exact or missing (0) and whose frame rate is
\* nominal or missing (0).
Videos ==
    {NoVideo} \cup
    UNION {{[opened |-> TRUE, frame_count_prop |-> c, fps |-> f,
             frames |-> [i \in 1..n |-> IF i <= cut THEN k1 ELSE k2]] :
               cut \in 0..n, k1 \in FrameKinds, k2 \in FrameKinds,
               c \in {0, n}, f \in {0, NominalFps}} : n \in 0..MaxFrames}

-----------------------------------------------------------------------------
(* ArcheryAnalyzer.analyze_video *)

\* analyze_stance(landmarks) is called without frame_number: the default
DefaultFrameNumber == 0

\* The locals of analyze_video after cap was opened on v.  requested (the
\* frame indices handed to pose.process) and detections (how many of them
\* came back with landmarks) observe the landmark provider.
InitRun(v) ==
    [total_frames |-> v.frame_count_prop, fps |-> v.fps,
     all_errors |-> <<>>, all_metrics |-> <<>>, pose_data |-> <<>>,
     frame_count |-> 0, requested |-> <<>>, detections |-> 0]

NoRun == InitRun(NoVideo)

SampledShifted(frame_count) == frame_count % SampleStride = 1

\* not (frame_count % 5 != 0): the frame is not skipped
Sampled(frame_count) == frame_count % SampleStride = 0

NoDetectionCounted(ctx) == [ctx EXCEPT !.all_metrics = Append(@, <<>>)]

\* `if results.pose_landmarks:` has no else branch: a sampled frame without
\* a body leaves the locals as they are
NoDetection(ctx) == ctx

\* One pass of the while loop on a frame that cap.read() returned.  fault
\* says that pose.process raises on this frame.  The outcome is the locals,
\* the tracker, and whether an exception left the loop.
LoopBody(ctx, frame, tracking, fault) ==
    LET frame_count == ctx.frame_count + 1
        counted == [ctx EXCEPT !.frame_count = frame_count]
    IN  IF ~Sampled(frame_count)
        THEN [ctx |-> counted, tracking |-> tracking, raised |-> FALSE]
        ELSE
        LET asked == [counted EXCEPT !.requested = Append(@, frame_count)]
            results == PoseProcess(frame, tracking)
        IN  IF fault
            THEN [ctx |-> asked, tracking |-> tracking, raised |-> TRUE]
            ELSE IF DOMAIN results.pose_landmarks = {}   \* no body detected
            THEN [ctx |-> NoDetection(asked), tracking |-> results.tracking,
                  raised |-> FALSE]
            ELSE
            LET landmarks == results.pose_landmarks
                stance == analyze_stance(landmarks, DefaultFrameNumber)
                draw == analyze_draw_phase(landmarks)
                frame_errors == stance.errors \o draw.errors
                frame_metrics == draw.metrics @@ stance.metrics
                collected ==
                    [asked EXCEPT !.detections = @ + 1,
                                  !.all_errors = @ \o frame_errors,
                                  !.all_metrics = Append(@, frame_metrics)]
            IN  IF ctx.fps = 0   \* frame_count / fps: ZeroDivisionError
                THEN [ctx |-> collected, tracking |-> results.tracking,
                      raised |-> TRUE]
                ELSE [ctx |-> [collected EXCEPT !.pose_data = Append(@,
                                  [frame |-> frame_count,
                                   timestamp |-> Frac(frame_count, ctx.fps),
                                   landmarks |-> landmarks])],
                      tracking |-> results.tracking, raised |-> FALSE]

AnalyzedFramesSampled(ctx) == Len(ctx.requested)

AnalyzedFramesOfPreview(ctx) ==
    IF Len(ctx.all_metrics) < PoseDataCap THEN Len(ctx.all_metrics)
    ELSE PoseDataCap

\* 'analyzed_frames': len(all_metrics)
AnalyzedFrames(ctx) == Len(ctx.all_metrics)

\* The dictionary analyze_video returns after the loop.
AnalysisResult(ctx) ==
    [errors |-> ctx.all_errors,
     metrics |-> calculate_summary_metrics(ctx.all_metrics),
     pose_data |-> SubSeq(ctx.pose_data, 1,
                          IF Len(ctx.pose_data) < PoseDataCap
                          THEN Len(ctx.pose_data) ELSE PoseDataCap),
     feedback |-> generate_feedback(ctx.all_errors),
     total_frames |-> ctx.total_frames,
     analyzed_frames |-> AnalyzedFrames(ctx)]

\* cap.release() after the loop: the handle is closed
ReleaseAfterLoop == FALSE

\* No cap.release() on the path of an exception: the handle stays as it was
CapAfterRaise(open) == open

-----------------------------------------------------------------------------
(* The endpoints.  Both handlers are coroutines of one event loop:         *)
(* analyze_video never awaits, so a handler that has resumed runs to its   *)
(* response before any other handler advances; the only suspension point   *)
(* is `await file.read()` of the upload handler.                           *)

Reqs == 1..NumReqs

NoResponse == [status |-> 0]

\* What a handler is given: the endpoint, whether the uploaded file's
\* content type starts with "video/", and whether
\* /app/videos/Archery/<video_id>.mp4 exists.
NoRequest == [endpoint |-> "none", is_video |-> FALSE, stored |-> FALSE]
UploadRequest(is_video) ==
    [endpoint |-> "upload", is_video |-> is_video, stored |-> FALSE]
SampleRequest(stored) ==
    [endpoint |-> "sample", is_video |-> FALSE, stored |-> stored]

ContentAcceptedAlways(is_video) == TRUE

\* not file.content_type.startswith('video/') raises 400
ContentAccepted(is_video) == is_video

SampleFoundAlways(stored) == TRUE

\* not os.path.exists(video_path) raises 404
SampleFound(stored) == stored

\* HTTPException(status_code=..., detail=...)
HttpError(status, detail) == [status |-> status, detail |-> detail]

\* result plus video_id and filename, answered with 200
HttpOk(result, video_id, filename) ==
    [status |-> 200,
     body |-> [video_id |-> video_id, filename |-> filename] @@ result]

\* The handler of slot r is between a resume and the sending of its response.
Busy(r) == pc[r] \in {"written", "call", "loop", "done"}

\* The event loop can give slot r a turn.
Turn(r) == \A q \in Reqs \ {r} : ~Busy(q)

RemoveTempSkipped(exists) == exists

\* finally: if os.path.exists(temp_path): os.remove(temp_path)
RemoveTemp(exists) == FALSE

ServerInit ==
    /\ pc = [r \in Reqs |-> "idle"]
    /\ request = [r \in Reqs |-> NoRequest]
    /\ video = [r \in Reqs |-> NoVideo]
    /\ run = [r \in Reqs |-> NoRun]
    /\ capOpen = [r \in Reqs |-> FALSE]
    /\ tmpExists = [r \in Reqs |-> FALSE]
    /\ tmpCreated = [r \in Reqs |-> FALSE]
    /\ response = [r \in Reqs |-> NoResponse]
    /\ poseTracking = FALSE

\* The handler leaves with the given response; the upload handler's finally
\* clause runs on the way out.
Leave(r, resp, cap) ==
    /\ pc' = [pc EXCEPT ![r] = "done"]
    /\ response' = [response EXCEPT ![r] = resp]
    /\ capOpen' = [capOpen EXCEPT ![r] = cap]
    /\ tmpExists' = [tmpExists EXCEPT ![r] =
                        IF request[r].endpoint = "upload" THEN RemoveTemp(@) ELSE @]

\* POST /api/analyze-video up to `await file.read()`
UploadArrives(r) ==
    /\ pc[r] = "idle" /\ Turn(r)
    /\ \E is_video \in BOOLEAN :
        /\ request' = [request EXCEPT ![r] = UploadRequest(is_video)]
        /\ IF ~ContentAccepted(is_video)
           THEN /\ pc' = [pc EXCEPT ![r] = "done"]
                /\ response' = [response EXCEPT ![r] =
                                   HttpError(400, "File must be a video")]
           ELSE /\ pc' = [pc EXCEPT ![r] = "reading"]
                /\ UNCHANGED response
    /\ UNCHANGED <<video, run, capOpen, tmpExists, tmpCreated, poseTracking,
                   frameVars, fbVars>>

\* The upload handler resumes: file.read() returns or raises, then the
\* temporary file is created and written (the write may raise).
UploadResumes(r) ==
    /\ pc[r] = "reading" /\ Turn(r)
    /\ \E outcome \in {"read_raises", "write_raises", "written"},
          v \in Videos :
        /\ tmpCreated' = [tmpCreated EXCEPT ![r] = outcome # "read_raises"]
        /\ IF outcome = "written"
           THEN /\ pc' = [pc EXCEPT ![r] = "written"]
                /\ tmpExists' = [tmpExists EXCEPT ![r] = TRUE]
                /\ video' = [video EXCEPT ![r] = v]
                /\ UNCHANGED <<response, capOpen>>
           ELSE /\ pc' = [pc EXCEPT ![r] = "done"]
                /\ response' = [response EXCEPT ![r] =
                                   HttpError(500, "Analysis failed")]
                /\ tmpExists' = [tmpExists EXCEPT ![r] =
                                    RemoveTemp(outcome = "write_raises")]
                /\ UNCHANGED <<video, capOpen>>
    /\ UNCHANGED <<request, run, poseTracking, frameVars, fbVars>>

\* GET /api/analyze-sample/{video_id} up to the call of analyze_video
SampleArrives(r) ==
    /\ pc[r] = "idle" /\ Turn(r)
    /\ \E stored \in BOOLEAN, v \in Videos :
        /\ request' = [request EXCEPT ![r] = SampleRequest(stored)]
        /\ IF ~SampleFound(stored)
           THEN /\ pc' = [pc EXCEPT ![r] = "done"]
                /\ response' = [response EXCEPT ![r] =
                                   HttpError(404, "Video not found")]
                /\ UNCHANGED video
           ELSE /\ pc' = [pc EXCEPT ![r] = "call"]
                /\ video' = [video EXCEPT ![r] = v]
                /\ UNCHANGED response
    /\ UNCHANGED <<run, capOpen, tmpExists, tmpCreated, poseTracking,
                   frameVars, fbVars>>

IsOpenedUnchecked(v) == TRUE

\* cap.isOpened()
IsOpened(v) == v.opened

\* analyze_video up to the loop: cv2.VideoCapture(video_path), isOpened()
OpenVideo(r) ==
    /\ pc[r] \in {"written", "call"}
    /\ IF IsOpened(video[r])
       THEN /\ pc' = [pc EXCEPT ![r] = "loop"]
            /\ capOpen' = [capOpen EXCEPT ![r] = TRUE]
            /\ run' = [run EXCEPT ![r] = InitRun(video[r])]
            /\ UNCHANGED <<response, tmpExists>>
       ELSE /\ Leave(r, HttpError(500, "Analysis failed"), capOpen[r])
            /\ UNCHANGED run
    /\ UNCHANGED <<request, video, tmpCreated, poseTracking,
                   frameVars, fbVars>>

\* cap.read() returned a frame: one pass of the loop
ReadFrame(r) ==
    /\ pc[r] = "loop"
    /\ run[r].frame_count < Len(video[r].frames)
    /\ \E fault \in BOOLEAN :
        LET frame == video[r].frames[run[r].frame_count + 1]
            out == LoopBody(run[r], frame, poseTracking, fault)
        IN  /\ fault => Sampled(run[r].frame_count + 1)
            /\ run' = [run EXCEPT ![r] = out.ctx]
            /\ poseTracking' = out.tracking
            /\ IF out.raised
               THEN Leave(r, HttpError(500, "Analysis failed"),
                          CapAfterRaise(capOpen[r]))
               ELSE UNCHANGED <<pc, response, capOpen, tmpExists>>
    /\ UNCHANGED <<request, video, tmpCreated, frameVars, fbVars>>

\* cap.read() returned ret = False: break, release, aggregate, respond
EndOfStream(r) ==
    /\ pc[r] = "loop"
    /\ run[r].frame_count = Len(video[r].frames)
    /\ Leave(r, HttpOk(AnalysisResult(run[r]), r, request[r].endpoint),
             ReleaseAfterLoop)
    /\ UNCHANGED <<request, video, run, tmpCreated, poseTracking,
                   frameVars, fbVars>>

\* The response was sent; the slot takes the next request.
Respond(r) ==
    /\ pc[r] = "done"
    /\ pc' = [pc EXCEPT ![r] = "idle"]
    /\ request' = [request EXCEPT ![r] = NoRequest]
    /\ video' = [video EXCEPT ![r] = NoVideo]
    /\ run' = [run EXCEPT ![r] = NoRun]
    /\ capOpen' = [capOpen EXCEPT ![r] = FALSE]
    /\ tmpExists' = [tmpExists EXCEPT ![r] = FALSE]
    /\ tmpCreated' = [tmpCreated EXCEPT ![r] = FALSE]
    /\ response' = [response EXCEPT ![r] = NoResponse]
    /\ UNCHANGED <<poseTracking, frameVars, fbVars>>

FrameIdle == lmIn = NoLandmarks /\ frameNo = 0 /\ frameOut = [op |-> "none", errors |-> <<>>, metrics |-> <<>>]
FbIdle ==
    /\ fbErrors = <<>> /\ fbOut = generate_feedback(<<>>)
    /\ smIn = <<>> /\ smOut = calculate_summary_metrics(<<>>)

Init == ServerInit /\ FrameIdle /\ FbIdle

Next ==
    \E r \in Reqs :
        \/ UploadArrives(r)
        \/ UploadResumes(r)
        \/ SampleArrives(r)
        \/ OpenVideo(r)
        \/ ReadFrame(r)
        \/ EndOfStream(r)
        \/ Respond(r)

Spec == Init /\ [][Next]_vars

-----------------------------------------------------------------------------
(* The rule engine on its own: analyze_stance and analyze_draw_phase       *)
(* applied to landmark sets drawn from bounded grids.                      *)

\* Landmark sets for analyze_stance: the left ankle and left shoulder range
\* over 0..MaxCoord, the right ones over 0..MaxRight; feet level or not,
\* knees over the feet or not, shoulders over the feet or shifted aside.
StanceInputs ==
    {MkLandmarks([left_ankle |-> <<lax, 90 + lift>>, right_ankle |-> <<rax, 90>>,
                  left_shoulder |-> <<lsx + shift, 20>>,
                  right_shoulder |-> <<rsx + shift, 20>>,
                  left_knee |-> <<lax + lean, 70>>, right_knee |-> <<rax, 70>>]) :
        lax \in 0..MaxCoord, rax \in 0..MaxRight, lsx \in 0..MaxCoord,
        rsx \in 0..MaxRight, lift \in {0, 6}, lean \in {0, 7},
        shift \in {0, 10}}

\* The eight directions of the angle table and the null direction
Directions ==
    {<<dx, dy>> : dx \in {-1, 0, 1}, dy \in {-1, 0, 1}}

\* Landmark sets for analyze_draw_phase: both upper arms horizontal, the
\* forearms in any direction of the table, shoulders level or not.
DrawInputs ==
    {MkLandmarks([left_shoulder |-> <<40, 20 + drop>>, right_shoulder |-> <<60, 20>>,
                  left_elbow |-> <<30, 20 + drop>>, right_elbow |-> <<70, 20>>,
                  left_wrist |-> <<30 + 5 * l[1], 20 + drop + 5 * l[2]>>,
                  right_wrist |-> <<70 + 5 * w[1], 20 + 5 * w[2]>>]) :
        l \in Directions, w \in Directions, drop \in {0, 3, 4}}

FrameNumbers == {0, SampleStride}

ApplyStance ==
    /\ frameOut.op = "none"
    /\ \E lm \in StanceInputs, n \in FrameNumbers :
        /\ lmIn' = lm
        /\ frameNo' = n
        /\ frameOut' = [op |-> "stance"] @@ analyze_stance(lm, n)
    /\ UNCHANGED <<serverVars, fbVars>>

ApplyDraw ==
    /\ frameOut.op = "none"
    /\ \E lm \in DrawInputs :
        /\ lmIn' = lm
        /\ frameNo' = 0
        /\ frameOut' = [op |-> "draw"] @@ analyze_draw_phase(lm)
    /\ UNCHANGED <<serverVars, fbVars>>

\* calculate_angle on a vertex and two outer points in the directions of
\* the table, with the outer points in either order.
ApplyAngle ==
    /\ frameOut.op = "none"
    /\ \E u \in Directions, w \in Directions, b \in {<<30, 20>>, <<70, 24>>} :
        LET a == <<b[1] + 5 * u[1], b[2] + 5 * u[2]>>
            c == <<b[1] + 5 * w[1], b[2] + 5 * w[2]>>
        IN  /\ lmIn' = MkLandmarks([right_shoulder |-> a, right_elbow |-> b,
                                    right_wrist |-> c])
            /\ frameNo' = 0
            /\ frameOut' = [op |-> "angle", errors |-> <<>>,
                            metrics |-> [angle |-> calculate_angle(a, b, c),
                                         swapped |-> calculate_angle(c, b, a)]]
    /\ UNCHANGED <<serverVars, fbVars>>

FrameNext == ApplyStance \/ ApplyDraw \/ ApplyAngle

SpecFrame == Init /\ [][FrameNext]_vars

-----------------------------------------------------------------------------
(* The aggregator on its own: generate_feedback applied to growing lists   *)
(* of findings.                                                            *)

\* The findings handed to generate_feedback: two stance findings of the
\* rule engine (a very wide stance, knees off the feet), as produced for
\* the frame_number analyze_video passes.
FeedbackFindings ==
    {StanceWidthErrors(400, 200, DefaultFrameNumber)[1],
     StanceError("stance", "knee_misalignment", "medium",
         "Align your knees directly over your feet for better stability",
         "Knees are not properly aligned over feet", DefaultFrameNumber,
         <<"Knee-foot alignment offset", 35>>)}

AddFinding ==
    /\ Len(fbErrors) < MaxErrors
    /\ \E e \in FeedbackFindings :
        /\ fbErrors' = Append(fbErrors, e)
        /\ fbOut' = generate_feedback(fbErrors')
    /\ UNCHANGED <<serverVars, frameVars, smIn, smOut>>

FeedbackNext == AddFinding

SpecFeedback == Init /\ [][FeedbackNext]_vars


\* The metric samples handed to calculate_summary_metrics: what the two
\* rule groups return for the poses of the model, separately and merged,
\* and the empty dictionary they return when given no landmarks.
MetricSamples ==
    <<analyze_stance(NoLandmarks, DefaultFrameNumber).metrics,
      analyze_stance(PoseLandmarks(1), DefaultFrameNumber).metrics,
      analyze_stance(PoseLandmarks(2), DefaultFrameNumber).metrics,
      analyze_draw_phase(PoseLandmarks(1)).metrics,
      analyze_draw_phase(PoseLandmarks(2)).metrics,
      analyze_draw_phase(PoseLandmarks(1)).metrics
          @@ analyze_stance(PoseLandmarks(1), DefaultFrameNumber).metrics,
      analyze_draw_phase(PoseLandmarks(2)).metrics
          @@ analyze_stance(PoseLandmarks(2), DefaultFrameNumber).metrics>>

AddSample ==
    /\ Len(smIn) < MaxSamples
    /\ \E k \in 1..Len(MetricSamples) :
        /\ smIn' = Append(smIn, MetricSamples[k])
        /\ smOut' = calculate_summary_metrics(smIn')
    /\ UNCHANGED <<serverVars, frameVars, fbErrors, fbOut>>

SummaryNext == AddSample

SpecSummary == Init /\ [][SummaryNext]_vars

-----------------------------------------------------------------------------
(* analyze_video on long stored videos: more sampled frames than the       *)
(* pose_data cap and than the feedback threshold.                          *)

\* Stored videos of LongFrames - 10 and LongFrames frames whose content
\* changes at most once, half way.
LongVideos ==
    {[opened |-> TRUE, frame_count_prop |-> n, fps |-> NominalFps,
      frames |-> [i \in 1..n |-> IF i <= cut THEN k1 ELSE k2]] :
        n \in {LongFrames - 10, LongFrames}, cut \in {0, LongFrames \div 2},
        k1 \in FrameKinds, k2 \in FrameKinds}

\* GET /api/analyze-sample/{video_id} of a stored long video, up to the
\* call of analyze_video
LongSampleArrives(r) ==
    /\ pc[r] = "idle" /\ Turn(r)
    /\ \E v \in LongVideos :
        /\ request' = [request EXCEPT ![r] = SampleRequest(TRUE)]
        /\ SampleFound(TRUE)
        /\ pc' = [pc EXCEPT ![r] = "call"]
        /\ video' = [video EXCEPT ![r] = v]
    /\ UNCHANGED <<response, run, capOpen, tmpExists, tmpCreated, poseTracking,
                   frameVars, fbVars>>

LongNext ==
    \E r \in Reqs :
        \/ LongSampleArrives(r)
        \/ OpenVideo(r)
        \/ ReadFrame(r)
        \/ EndOfStream(r)
        \/ Respond(r)

SpecLong == Init /\ [][LongNext]_vars

-----------------------------------------------------------------------------
(* Finding groups: the rule engine on one landmark set, and analyze_video  *)
(* on long stored videos, in one specification.                            *)

GroupsNext ==
    \/ /\ frameOut.op = "none"
       /\ LongNext
    \/ /\ \A r \in Reqs : pc[r] = "idle"
       /\ FrameNext

SpecGroups == Init /\ [][GroupsNext]_vars

-----------------------------------------------------------------------------
(* analyze_video run alone: the same loop on a pose object no earlier      *)
(* request has used, with no fault of the landmark provider.               *)

RECURSIVE RunAlone(_, _, _)
RunAlone(v, ctx, tracking) ==
    IF ctx.frame_count = Len(v.frames) THEN [ctx |-> ctx, raised |-> FALSE]
    ELSE LET out == LoopBody(ctx, v.frames[ctx.frame_count + 1], tracking, FALSE)
         IN  IF out.raised THEN [ctx |-> out.ctx, raised |-> TRUE]
             ELSE RunAlone(v, out.ctx, out.tracking)

AloneOutcome(v) == RunAlone(v, InitRun(v), FALSE)

-----------------------------------------------------------------------------
(* Properties *)

Range(s) == {s[i] : i \in DOMAIN s}

\* C1: in analyze_video a landmark request (pose.process) is issued for
\* exactly the frames read so far whose 1-based index is a multiple of 5,
\* in increasing index order, and for no other frame.
C1_StrideSampling ==
    \A r \in Reqs :
        run[r].requested = [k \in 1..(run[r].frame_count \div 5) |-> 5 * k]

C1_Witness ==
    \E r \in Reqs :
        /\ run[r].frame_count = 10
        /\ run[r].requested = <<5, 10>>

\* C2: in every Analysis Result returned, analyzed_frames equals the number
\* of sampled frames for which the landmark provider reported a detection.
C2_AnalyzedCountsDetections ==
    \A r \in Reqs :
        (pc[r] = "done" /\ response[r].status = 200)
            => response[r].body.analyzed_frames = run[r].detections

C2_Witness ==
    \E r \in Reqs :
        /\ pc[r] = "done" /\ response[r].status = 200
        /\ Len(run[r].requested) = 2
        /\ run[r].detections = 1
        /\ response[r].body.analyzed_frames = 1

\* C3: in every Analysis Result returned, analyzed_frames <= total_frames,
\* whatever frame count the container reports.
C3_AnalyzedAtMostTotal ==
    \A r \in Reqs :
        (pc[r] = "done" /\ response[r].status = 200)
            => response[r].body.analyzed_frames <= response[r].body.total_frames

\* The (category, issue) groups of the findings handed to generate_feedback
FbGroups == {<<fbErrors[i].type, fbErrors[i].issue>> : i \in DOMAIN fbErrors}

FbGroupCount(g) ==
    Cardinality({i \in DOMAIN fbErrors :
                    <<fbErrors[i].type, fbErrors[i].issue>> = g})

FbGroupCorrection(g) ==
    LET i == CHOOSE j \in DOMAIN fbErrors :
                <<fbErrors[j].type, fbErrors[j].issue>> = g
    IN  fbErrors[i].correction

\* C4: generate_feedback returns a non-empty list; it contains the positive
\* message if and only if no (category, issue) group has more than 5
\* occurrences, and then it contains nothing else.
C4_PositiveIffNoFrequentGroup ==
    /\ Len(fbOut) > 0
    /\ (PositiveMessage \in Range(fbOut))
           <=> (\A g \in FbGroups : FbGroupCount(g) <= 5)
    /\ (PositiveMessage \in Range(fbOut)) => fbOut = <<PositiveMessage>>

C4_Witness ==
    /\ \E g \in FbGroups : FbGroupCount(g) = 5
    /\ Cardinality(FbGroups) = 2
    /\ fbOut = <<PositiveMessage>>

\* C5: generate_feedback emits exactly one warning for each group with
\* more than 5 occurrences, carrying that group's occurrence count, and no
\* warning for a group with 5 or fewer occurrences.
C5_OneWarningPerFrequentGroup ==
    /\ \A g \in FbGroups :
        LET n == FbGroupCount(g)
            ws == {k \in DOMAIN fbOut : /\ fbOut[k][1] = "warning"
                                        /\ fbOut[k][2] = FbGroupCorrection(g)}
        IN  /\ Cardinality(ws) = IF n > 5 THEN 1 ELSE 0
            /\ \A k \in ws : fbOut[k][3] = n
    /\ Cardinality({k \in DOMAIN fbOut : fbOut[k][1] = "warning"})
           = Cardinality({g \in FbGroups : FbGroupCount(g) > 5})

C5_Witness ==
    /\ \E g \in FbGroups : FbGroupCount(g) = 6
    /\ \E g \in FbGroups : FbGroupCount(g) = 5
    /\ Len(fbOut) = 1
    /\ fbOut[1][3] = 6

StanceWidthIssues ==
    {"very_narrow_stance", "narrow_stance", "wide_stance", "very_wide_stance"}

\* The stance-width findings of the last analyze_stance, as
\* <<category, issue, severity>>
WidthFindings ==
    LET w == SelectSeq(frameOut.errors, LAMBDA e : e.issue \in StanceWidthIssues)
    IN  [k \in 1..Len(w) |-> <<w[k].type, w[k].issue, w[k].severity>>]

\* C6: analyze_stance emits at most one stance-width finding, the one of
\* the band of foot_distance against shoulder_width: below 0.6x very narrow
\* (high), [0.6x, 0.8x) narrow (medium), above 1.5x very wide (high),
\* (1.3x, 1.5x] wide (medium), [0.8x, 1.3x] none.
C6_StanceWidthBands ==
    frameOut.op = "stance" =>
        LET fd == Abs(lmIn[27].x - lmIn[28].x)
            sw == Abs(lmIn[11].x - lmIn[12].x)
        IN  /\ Len(WidthFindings) <= 1
            /\ (10 * fd < 6 * sw) =>
                   WidthFindings = <<<<"stance", "very_narrow_stance", "high">>>>
            /\ (6 * sw <= 10 * fd /\ 10 * fd < 8 * sw) =>
                   WidthFindings = <<<<"stance", "narrow_stance", "medium">>>>
            /\ (10 * fd > 15 * sw) =>
                   WidthFindings = <<<<"stance", "very_wide_stance", "high">>>>
            /\ (13 * sw < 10 * fd /\ 10 * fd <= 15 * sw) =>
                   WidthFindings = <<<<"stance", "wide_stance", "medium">>>>
            /\ (8 * sw <= 10 * fd /\ 10 * fd <= 13 * sw) =>
                   WidthFindings = <<>>

C6_Witness ==
    /\ frameOut.op = "stance"
    /\ Abs(lmIn[27].x - lmIn[28].x) = 8
    /\ Abs(lmIn[11].x - lmIn[12].x) = 5
    /\ WidthFindings = <<<<"stance", "very_wide_stance", "high">>>>

\* C7: the video source handle opened by analyze_video is released on every
\* exit path of analyze_video, an exception in the frame loop included.
C7_CapReleasedOnEveryExit ==
    \A r \in Reqs : pc[r] = "done" => ~capOpen[r]

\* C8: once the upload handler has returned or raised, the temporary file
\* it created no longer exists.
C8_TempFileGoneOnExit ==
    \A r \in Reqs : (pc[r] = "done" /\ tmpCreated[r]) => ~tmpExists[r]

C8_Witness ==
    \E r \in Reqs :
        /\ pc[r] = "done" /\ tmpCreated[r] /\ ~tmpExists[r]
        /\ response[r].status = 500
        /\ run[r].requested # <<>>

\* C9: the Analysis Result a request returns is the one it returns when run
\* alone on the same video, whatever requests were served before it.
C9_ResultAsWhenRunAlone ==
    \A r \in Reqs :
        (pc[r] = "done" /\ response[r].status = 200) =>
            /\ ~AloneOutcome(video[r]).raised
            /\ response[r].body
                   = HttpOk(AnalysisResult(AloneOutcome(video[r]).ctx), r,
                            request[r].endpoint).body

\* C10: GET /api/analyze-sample/{video_id} for a video_id with no stored
\* video responds 404 without invoking analyze_video: no source is opened
\* and no landmark request is issued.
C10_SampleNotFound ==
    \A r \in Reqs :
        (request[r].endpoint = "sample" /\ ~request[r].stored) =>
            /\ pc[r] = "done"
            /\ response[r].status = 404
            /\ ~capOpen[r]
            /\ run[r] = NoRun
            /\ video[r] = NoVideo

C10_Witness ==
    \E r \in Reqs :
        /\ request[r] = SampleRequest(FALSE)
        /\ pc[r] = "done"
        /\ response[r].status = 404

\* C11: POST /api/analyze-video with a file whose content type does not
\* start with "video/" responds 400 and changes nothing: no temporary file
\* is created and analyze_video is not invoked.
C11_InvalidUploadRejected ==
    \A r \in Reqs :
        (request[r].endpoint = "upload" /\ ~request[r].is_video) =>
            /\ pc[r] = "done"
            /\ response[r].status = 400
            /\ ~tmpCreated[r] /\ ~tmpExists[r]
            /\ ~capOpen[r]
            /\ run[r] = NoRun
            /\ video[r] = NoVideo

C11_Witness ==
    \E r \in Reqs :
        /\ request[r] = UploadRequest(FALSE)
        /\ pc[r] = "done"
        /\ response[r].status = 400

\* C12: a video source that cannot be opened makes analyze_video fail
\* before any frame is read and any landmark request is issued, and the
\* endpoint answers 500; a response to a failed analysis never carries an
\* Analysis Result.
C12_FailureCarriesNoResult ==
    /\ [](\A r \in Reqs :
            response[r].status = 500 => DOMAIN response[r] = {"status", "detail"})
    /\ [][\A r \in Reqs :
            (pc[r] \in {"written", "call"} /\ ~video[r].opened /\ pc'[r] # pc[r])
                => /\ pc'[r] = "done"
                   /\ response'[r].status = 500
                   /\ "body" \notin DOMAIN response'[r]
                   /\ run'[r].frame_count = 0
                   /\ run'[r].requested = <<>>
                   /\ ~capOpen'[r]]_vars

C12_Witness ==
    \E r \in Reqs :
        /\ pc[r] = "done"
        /\ request[r] = SampleRequest(TRUE)
        /\ ~video[r].opened
        /\ response[r].status = 500
        /\ run[r] = NoRun

\* The samples of smIn that carry the metric key
SmHaving(key) == {i \in DOMAIN smIn : key \in DOMAIN smIn[i]}

RECURSIVE SmTotal(_, _)
SmTotal(S, key) ==
    IF S = {} THEN 0
    ELSE LET i == CHOOSE j \in S : TRUE
         IN  smIn[i][key] + SmTotal(S \ {i}, key)

\* C13: calculate_summary_metrics includes avg_<name> and std_<name>
\* exactly for the metric names at least one frame produced; avg_<name> is
\* the arithmetic mean over the contributing frames; std_<name> is 0 when
\* exactly one frame contributed; with no analyzed frame the summary is
\* empty.
C13_SummaryMetrics ==
    /\ \A k \in 1..Len(MetricKeys) :
        LET key == MetricKeys[k]
            n == Cardinality(SmHaving(key))
            avg == "avg_" \o key
            std == "std_" \o key
        IN  /\ (avg \in DOMAIN smOut) <=> n > 0
            /\ (std \in DOMAIN smOut) <=> n > 0
            /\ n > 0 => /\ smOut[avg][2] > 0
                        /\ smOut[avg][1] * n = SmTotal(SmHaving(key), key) * smOut[avg][2]
            /\ n = 1 => smOut[std] = <<"sqrt", 0, 1>>
    /\ Len(smIn) = 0 => DOMAIN smOut = {}
    /\ Cardinality(DOMAIN smOut)
           = 2 * Cardinality({k \in 1..Len(MetricKeys) :
                                 SmHaving(MetricKeys[k]) # {}})

C13_Witness ==
    /\ Len(smIn) = 3
    /\ Cardinality(SmHaving("foot_distance")) = 1
    /\ Cardinality(SmHaving("left_elbow_angle")) = 2
    /\ smOut["std_foot_distance"] = <<"sqrt", 0, 1>>
    /\ smOut["std_left_elbow_angle"] # <<"sqrt", 0, 1>>
    /\ "avg_body_alignment" \in DOMAIN smOut

\* The findings and metric samples of the analyzed frames, recomputed from
\* the landmarks of every observation of the run (the untruncated list).
RECURSIVE ObservedErrors(_)
ObservedErrors(obs) ==
    IF obs = <<>> THEN <<>>
    ELSE analyze_stance(Head(obs).landmarks, DefaultFrameNumber).errors
         \o analyze_draw_phase(Head(obs).landmarks).errors
         \o ObservedErrors(Tail(obs))

ObservedMetrics(obs) ==
    [k \in 1..Len(obs) |->
        analyze_draw_phase(obs[k].landmarks).metrics
        @@ analyze_stance(obs[k].landmarks, DefaultFrameNumber).metrics]

\* C14: pose_data holds the first min(20, analyzed_frames) observations in
\* frame order, while errors, metrics, feedback and analyzed_frames cover
\* every analyzed frame, beyond the 20th too.
C14_PreviewTruncationOnly ==
    \A r \in Reqs :
        (pc[r] = "done" /\ response[r].status = 200) =>
            LET b == response[r].body
                all == run[r].pose_data
                n == run[r].detections
                m == IF n < 20 THEN n ELSE 20
            IN  /\ Len(all) = n
                /\ b.analyzed_frames = n
                /\ Len(b.pose_data) = m
                /\ \A k \in 1..m : b.pose_data[k] = all[k]
                /\ \A k \in 1..(m - 1) : b.pose_data[k].frame < b.pose_data[k + 1].frame
                /\ b.errors = ObservedErrors(all)
                /\ b.metrics = calculate_summary_metrics(ObservedMetrics(all))
                /\ b.feedback = generate_feedback(ObservedErrors(all))

C14_Witness ==
    \E r \in Reqs :
        /\ pc[r] = "done" /\ response[r].status = 200
        /\ response[r].body.analyzed_frames > 20
        /\ Len(response[r].body.pose_data) = 20
        /\ Len(response[r].body.errors) > 20

\* C15: every finding created while processing the frame with 1-based
\* index n has a frame field equal to n.
C15_FindingCarriesFrameIndex ==
    [][\A r \in Reqs :
        (pc[r] = "loop" /\ Len(run'[r].all_errors) > Len(run[r].all_errors)) =>
            \A i \in (Len(run[r].all_errors) + 1)..Len(run'[r].all_errors) :
                /\ "frame" \in DOMAIN run'[r].all_errors[i]
                /\ run'[r].all_errors[i].frame = run'[r].frame_count]_vars

\* C16: calculate_angle(a, b, c) = calculate_angle(c, b, a), and the angle
\* lies in [0, 180] degrees.
C16_AngleSymmetric ==
    frameOut.op = "angle" =>
        /\ frameOut.metrics.angle = frameOut.metrics.swapped
        /\ frameOut.metrics.angle >= 0
        /\ frameOut.metrics.angle <= 180

C16_Witness ==
    /\ frameOut.op = "angle"
    /\ LET a == XY(lmIn, "right_shoulder")
           b == XY(lmIn, "right_elbow")
           c == XY(lmIn, "right_wrist")
       IN  Atan2Deg(c[2] - b[2], c[1] - b[1])
               - Atan2Deg(a[2] - b[2], a[1] - b[1]) = 225
    /\ frameOut.metrics.angle = 135
    /\ frameOut.metrics.swapped = 135

\* C17: a sampled frame in which no body is detected leaves the findings,
\* metric samples and observations unchanged and advances the frame
\* counter, so consecutive landmark requests stay exactly 5 frames apart.
C17_UndetectedFrameContributesNothing ==
    /\ [][\A r \in Reqs :
            (/\ pc[r] = "loop" /\ pc'[r] = "loop"
             /\ Len(run'[r].requested) = Len(run[r].requested) + 1
             /\ run'[r].detections = run[r].detections)
                => /\ run'[r].all_errors = run[r].all_errors
                   /\ Len(run'[r].all_metrics) = Len(run[r].all_metrics)
                   /\ run'[r].pose_data = run[r].pose_data
                   /\ run'[r].frame_count = run[r].frame_count + 1]_vars
    /\ [](\A r \in Reqs :
            \A k \in 2..Len(run[r].requested) :
                run[r].requested[k] = run[r].requested[k - 1] + 5)

C17_Witness ==
    \E r \in Reqs :
        /\ pc[r] = "loop"
        /\ run[r].requested = <<5, 10>>
        /\ run[r].detections = 1
        /\ Len(run[r].all_metrics) = 1
        /\ Len(run[r].pose_data) = 1
        /\ run[r].pose_data[1].frame = 10

\* The (category, issue) groups of a list of findings
GroupsOf(errors) == {<<errors[i].type, errors[i].issue>> : i \in DOMAIN errors}

GroupCountIn(errors, g) ==
    Cardinality({i \in DOMAIN errors : <<errors[i].type, errors[i].issue>> = g})

\* The analyzed frames of a run whose landmarks show the issue of group g
FramesShowing(obs, g) ==
    {k \in DOMAIN obs : g \in GroupsOf(ObservedErrors(<<obs[k]>>))}

\* C18: within one analyzed frame each (category, issue) is emitted at most
\* once; so every group's occurrence count is at most analyzed_frames, and
\* the number in a warning ("detected in N frames") is the number of
\* analyzed frames showing that issue.
C18_GroupCountsAreFrameCounts ==
    /\ frameOut.op \in {"stance", "draw"} =>
           \A i, j \in DOMAIN frameOut.errors :
               i # j => <<frameOut.errors[i].type, frameOut.errors[i].issue>>
                            # <<frameOut.errors[j].type, frameOut.errors[j].issue>>
    /\ \A r \in Reqs :
        (pc[r] = "done" /\ response[r].status = 200) =>
            LET b == response[r].body
                obs == run[r].pose_data
            IN  /\ \A g \in GroupsOf(b.errors) :
                    /\ GroupCountIn(b.errors, g) <= b.analyzed_frames
                    /\ GroupCountIn(b.errors, g) = Cardinality(FramesShowing(obs, g))
                /\ \A k \in DOMAIN b.feedback :
                    b.feedback[k][1] = "warning" =>
                        \E i \in DOMAIN b.errors :
                            /\ b.errors[i].correction = b.feedback[k][2]
                            /\ b.feedback[k][3] = Cardinality(FramesShowing(obs,
                                   <<b.errors[i].type, b.errors[i].issue>>))

C18_Witness ==
    \E r \in Reqs :
        /\ pc[r] = "done" /\ response[r].status = 200
        /\ response[r].body.analyzed_frames > 20
        /\ Len(response[r].body.feedback) > 1
        /\ \E k \in DOMAIN response[r].body.feedback :
            /\ response[r].body.feedback[k][1] = "warning"
            /\ response[r].body.feedback[k][3] > 5
            /\ response[r].body.feedback[k][3] < response[r].body.analyzed_frames

====
